---- MODULE Spec2Model ----
(***************************************************************************)
(* Model of the server-side character registry of path-to-power            *)
(* (src/server/game/game.js, class CharacterManager) together with the     *)
(* collaborators its handlers call.  Asynchronous handlers are split at    *)
(* the points where they wait for storage; everything between two such     *)
(* points runs to completion, as on the single-threaded event loop.        *)
(***************************************************************************)
EXTENDS Integers, Sequences, FiniteSets, TLC

(***************************************************************************)
(* Bounds of the model.                                                    *)
(***************************************************************************)
MaxInst == 2
MaxTasks == 1
MaxCoord == 1
MoveCooldown == 2
MaxPending == 1
MaxItems == 1
MaxCash == 2
MaxExp == 1
MaxCount == 2
MaxResupply == 2
MaxIgnore == 2
MaxStore == 2

Users == {"u1", "u2"}
MapIds == {"city", "docks"}
FactionIds == {"f1"}
\* the one non-player entity that can aim at and kill characters; it has no user_id
NpcId == 0
Null == -1
\* JavaScript null / undefined for a character reference
NoChar == -1
Insts == 1..MaxInst
Entities == Insts \cup {NpcId}

VARIABLES characters, chr, cooldowns, locations, factions, tasks, sweep, boot, game,
          app, lastOp

vars == <<characters, chr, cooldowns, locations, factions, tasks, sweep, boot, game,
          app, lastOp>>

(***************************************************************************)
(* Values.                                                                 *)
(***************************************************************************)
NoLocation == [map |-> "", x |-> 0, y |-> 0]
\* a slot of the heap that holds no Character object
Free == [user_id |-> "", location |-> NoLocation, targetedBy |-> {}, target |-> NoChar,
         hidden |-> FALSE]
NoCooldown == [ticks |-> 0, pending |-> 0]

\* the timers named in the configuration
TimerNames == {"autosave", "newday"}

\* this.timers = [] of the Game constructor (line 30): `timers` holds the names
\* of the intervals that run, `resupply` counts the shop resupplies in flight,
\* `down` is the state of a shutdown() call and `callbacks` counts the calls
\* of the callback it was given
NoTimers == [timers |-> {}, setup |-> FALSE, resupply |-> 0, down |-> "none",
             callbacks |-> 0]

\* no saveAll() in flight; a sweep in flight holds, per entry of the array it
\* mapped over, the promise of that entry's callback
NoSweep == [on |-> FALSE, saves |-> <<>>]

Idle == [kind |-> "idle", pc |-> "", user |-> "", inst |-> NoChar, old |-> NoChar]

Min(S) == CHOOSE m \in S : \A n \in S : m <= n

SeqToSet(s) == {s[i] : i \in 1..Len(s)}

RECURSIVE SetToSeq(_)
SetToSeq(S) == IF S = {} THEN <<>> ELSE LET m == Min(S) IN <<m>> \o SetToSeq(S \ {m})

(***************************************************************************)
(* World collaborator (mapManager), configuration.                         *)
(***************************************************************************)
\* the cells of a map: "city" is a row along x, "docks" a column along y
Width(map) == IF map = "city" THEN MaxCoord ELSE 0
Height(map) == IF map = "docks" THEN MaxCoord ELSE 0

\* mapManager.isValidLocation(map, x, y): the location, or nothing
isValidLocation(map, x, y) ==
    IF map \in MapIds /\ x \in 0..Width(map) /\ y \in 0..Height(map)
    THEN [map |-> map, x |-> x, y |-> y]
    ELSE NoLocation

ValidLocations == {[map |-> m, x |-> x, y |-> y] : m \in MapIds, x \in 0..MaxCoord, y \in 0..MaxCoord}
                     \ {l \in [map : MapIds, x : 0..MaxCoord, y : 0..MaxCoord] :
                            isValidLocation(l.map, l.x, l.y) = NoLocation}

\* mapManager.get(map): {id, respawn: {x, y}}
mapGet(map) == [id |-> map,
                respawn |-> IF map = "city" THEN [x |-> 1, y |-> 0] ELSE [x |-> 0, y |-> 1]]

\* the faction a user's stored character belongs to ("" for none)
FactionOf(user_id) == IF user_id = "u1" THEN "f1" ELSE ""

(***************************************************************************)
(* The mutable program state as one record, so that handlers compose.  Its *)
(* field `out` collects, in order, what the handler hands to its           *)
(* collaborators: events for the dispatcher, room joins and leaves, calls  *)
(* on characters, the cooldown ledger and storage.                         *)
(***************************************************************************)
Cur == [characters |-> characters, chr |-> chr, cooldowns |-> cooldowns,
        locations |-> locations, factions |-> factions, sweep |-> sweep, game |-> game,
        out |-> <<>>]

\* Character.getLocationId(): `${map}_${y}_${x}`
getLocationId(loc) == loc.map \o "_" \o ToString(loc.y) \o "_" \o ToString(loc.x)

\* one observable effect of a handler: an event handed to the dispatcher, or a
\* call into a collaborator
Ev(k, to, type, msg, ignore, e, n) ==
    [k |-> k, to |-> to, type |-> type, msg |-> msg, ignore |-> ignore, e |-> e, n |-> n]

Emit(M, ev) == [M EXCEPT !.out = Append(@, ev)]

eventToUser(M, user_id, type, msg) == Emit(M, Ev("user", user_id, type, msg, {}, NoChar, 0))

eventToSocket(M, user_id, type, msg) == Emit(M, Ev("socket", user_id, type, msg, {}, NoChar, 0))

eventToRoom(M, room, type, msg, ignore) == Emit(M, Ev("room", room, type, msg, ignore, NoChar, 0))

eventToServer(M, type, msg, ignore) == Emit(M, Ev("server", "", type, msg, ignore, NoChar, 0))

\* the four verbs of Game (lines 194-231)
Verbs == {"user", "socket", "room", "server"}

\* a call Game.eventTo...(target, type, message, ignore) of the verb: an
\* argument beyond a method's parameter list is dropped by the call
eventTo(M, verb, to, type, msg, ignore) ==
    CASE verb = "user"   -> eventToUser(M, to, type, msg)
      [] verb = "socket" -> eventToSocket(M, to, type, msg)
      [] verb = "room"   -> eventToRoom(M, to, type, msg, ignore)
      [] verb = "server" -> eventToServer(M, type, msg, ignore)

\* socketManager.dispatchToRoom / dispatchToUser / dispatchToServer with a raw action
dispatchToRoom(M, room, type, msg) == Emit(M, Ev("room", room, type, msg, {}, NoChar, 0))

dispatchToUser(M, user_id, type, msg) == Emit(M, Ev("user", user_id, type, msg, {}, NoChar, 0))

dispatchToServer(M, type, msg) == Emit(M, Ev("server", "", type, msg, {}, NoChar, 0))

\* socket.join / socket.leave, socketManager.userJoinRoom / userLeaveRoom: the
\* room membership of the user's socket is kept by the transport layer, so a
\* change of it is an effect on that collaborator
socketJoin(M, user_id, room) == Emit(M, Ev("join", room, "", <<user_id>>, {}, NoChar, 0))

socketLeave(M, user_id, room) == Emit(M, Ev("leave", room, "", <<user_id>>, {}, NoChar, 0))

(***************************************************************************)
(* Character object (components/character/object.js).                      *)
(***************************************************************************)
newCharacter(user_id, record) ==
    [user_id |-> user_id, location |-> record.location, targetedBy |-> {}, target |-> NoChar,
     hidden |-> FALSE]

\* character.gridLock(attacker): attacker joins the set locking the character
gridLock(M, c, attacker) == [M EXCEPT !.chr[c].targetedBy = @ \cup {attacker}]

\* character.releaseTarget(): drop the outgoing lock, if any
releaseTarget(M, c) ==
    LET t == M.chr[c].target
    IN  IF t = NoChar THEN M
        ELSE [M EXCEPT !.chr[t].targetedBy = @ \ {c}, !.chr[c].target = NoChar]

\* character.updateLocation(map, x, y)
updateLocation(M, c, map, x, y) ==
    Emit([M EXCEPT !.chr[c].location = [map |-> map, x |-> x, y |-> y]],
         Ev("updateLocation", getLocationId([map |-> map, x |-> x, y |-> y]), "", <<>>, {}, c, 0))

(***************************************************************************)
(* Cooldown ledger (components/cooldown/manager.js).                       *)
(***************************************************************************)
\* ticksLeft(character, 'move'): time left on the running timer, 0 if none is active
ticksLeft(M, c) == M.cooldowns[c].ticks

\* add(character, 'move'): reserves an entry whose clock has not been started
cooldownAdd(M, c) == [M EXCEPT !.cooldowns[c].pending = @ + 1]

\* newCooldown.start(): the reserved entry becomes the running timer
cooldownStart(M, c) ==
    Emit([M EXCEPT !.cooldowns[c] = [ticks |-> MoveCooldown, pending |-> @.pending - 1]],
         Ev("start", "", "", <<>>, {}, c, 0))

(***************************************************************************)
(* Registry lookups.                                                       *)
(***************************************************************************)
\* this.characters.find((obj) => obj.user_id === user_id)
find(M, user_id) ==
    LET idx == {i \in 1..Len(M.characters) : M.chr[M.characters[i]].user_id = user_id}
    IN  IF idx = {} THEN NoChar ELSE M.characters[Min(idx)]

get(M, user_id) == IF user_id = "" THEN NoChar ELSE find(M, user_id)

joinedGrid(M, c) == <<M.chr[c].user_id>>

\* the details object of joinedGrid(character, false): lines 717-725.  A
\* character's name is given by its user_id's stored record
details(M, c) == [name |-> "name of " \o M.chr[c].user_id, user_id |-> M.chr[c].user_id]

\* a variant whose client-facing list keeps hidden characters
getLocationListShowsHidden(M, map, x, y, ignore, toClient) ==
    LET players == IF x # Null /\ y # Null
                   THEN SelectSeq(M.characters,
                                  LAMBDA c : /\ M.chr[c].location.map = map
                                             /\ M.chr[c].location.y = y
                                             /\ M.chr[c].location.x = x)
                   ELSE SelectSeq(M.characters, LAMBDA c : M.chr[c].location.map = map)
        shown == SelectSeq(players, LAMBDA c : M.chr[c].user_id # ignore)
    IN  IF ~toClient THEN [refs |-> players, list |-> <<>>]
        ELSE [refs |-> <<>>, list |-> [i \in 1..Len(shown) |-> details(M, shown[i])]]

\* getLocationList(map, x, y, ignore, toClient): lines 690-709.  The result is
\* `refs`, the character objects themselves, or `list`, the plain objects
\* made for the client; Null stands for an argument left out
getLocationList(M, map, x, y, ignore, toClient) ==
    LET players == IF x # Null /\ y # Null
                   THEN SelectSeq(M.characters,
                                  LAMBDA c : /\ M.chr[c].location.map = map
                                             /\ M.chr[c].location.y = y
                                             /\ M.chr[c].location.x = x)
                   ELSE SelectSeq(M.characters, LAMBDA c : M.chr[c].location.map = map)
        shown == SelectSeq(players, LAMBDA c : M.chr[c].user_id # ignore /\ ~M.chr[c].hidden)
    IN  IF ~toClient THEN [refs |-> players, list |-> <<>>]
        ELSE [refs |-> <<>>, list |-> [i \in 1..Len(shown) |-> details(M, shown[i])]]

updateClient(M, user_id) ==
    LET character == get(M, user_id)
    IN  IF character = NoChar THEN M
        ELSE dispatchToUser(M, user_id, "UPDATE_CHARACTER", <<getLocationId(M.chr[character].location)>>)

dispatchUpdatePlayerList(M, user_id) ==
    LET character == get(M, user_id)
    IN  IF character = NoChar THEN M
        ELSE dispatchToServer(M, "ADD_ONLINE_PLAYER", <<M.chr[character].user_id>>)

dispatchRemoveFromPlayerList(M, user_id) == dispatchToServer(M, "REMOVE_ONLINE_PLAYER", <<user_id>>)

\* this.characters.filter((obj) => obj.user_id !== user_id)
RECURSIVE filterOut(_, _, _)
filterOut(M, cs, user_id) ==
    IF cs = <<>> THEN <<>>
    ELSE IF M.chr[Head(cs)].user_id # user_id
         THEN <<Head(cs)>> \o filterOut(M, Tail(cs), user_id)
         ELSE filterOut(M, Tail(cs), user_id)

(***************************************************************************)
(* Grid index.                                                             *)
(***************************************************************************)
gridKey(position) == position.map \o "_" \o ToString(position.y) \o "_" \o ToString(position.x)

GridKeys == {gridKey(l) : l \in ValidLocations}

\* this.locations: the constructor never assigns it, so it starts undefined; a
\* cell that was never created reads as the empty list
UndefinedLocations == [defined |-> FALSE, cells |-> [k \in GridKeys |-> <<>>]]

\* removeFromGrid(position, character); indexing an undefined this.locations
\* throws a TypeError, modelled as [threw |-> TRUE]
removeFromGrid(M, position, c) ==
    IF ~M.locations.defined THEN [threw |-> TRUE, M |-> M]
    ELSE LET key == gridKey(position)
             playersInGrid == M.locations.cells[key]
             idx == {i \in 1..Len(playersInGrid) :
                        M.chr[playersInGrid[i]].user_id = M.chr[c].user_id}
         IN  IF idx = {} THEN [threw |-> FALSE, M |-> M]
             ELSE [threw |-> FALSE,
                   M |-> [M EXCEPT !.locations.cells[key] =
                            SubSeq(@, 1, Min(idx) - 1) \o SubSeq(@, Min(idx) + 1, Len(@))]]

addToGrid(M, position, c) ==
    IF ~M.locations.defined THEN [threw |-> TRUE, M |-> M]
    ELSE LET key == gridKey(position)
             cell == M.locations.cells[key]
         IN  IF \E i \in 1..Len(cell) : M.chr[cell[i]].user_id = M.chr[c].user_id
             THEN [threw |-> FALSE, M |-> M]
             ELSE [threw |-> FALSE, M |-> [M EXCEPT !.locations.cells[key] = Append(@, c)]]

\* Game.onError(err, socket) in a catch clause
onError(M, user_id) == Emit(M, Ev("onError", user_id, "", <<>>, {}, NoChar, 0))

(***************************************************************************)
(* Persistence and the session lifecycle: save, remove, manage.            *)
(***************************************************************************)
\* save(user_id) from the point where storage answers: dbSave copies the
\* character's fields into its record and writes it (the write is an effect
\* on the storage collaborator), or storage fails and save() throws
saveFinish(M, c, ok) ==
    IF ok THEN Emit(M, Ev("dbSave", M.chr[c].user_id, "", <<getLocationId(M.chr[c].location)>>, {}, c, 0))
    ELSE M

\* remove(user_id) after its await of save(): lines 499-513
removeTail(M, c, user_id) ==
    LET room == getLocationId(M.chr[c].location)
        M1 == eventToRoom(M, room, "info", <<M.chr[c].user_id, "disappears into a nearby building">>,
                          {M.chr[c].user_id})
        M2 == dispatchToRoom(M1, room, "LEFT_GRID", <<M.chr[c].user_id>>)
        f  == FactionOf(M.chr[c].user_id)
        M3 == IF f # "" THEN [M2 EXCEPT !.factions[f] = @ \ {c}] ELSE M2
        M4 == [M3 EXCEPT !.characters = filterOut(M3, M3.characters, user_id)]
    IN  dispatchRemoveFromPlayerList(M4, user_id)

\* a variant without the early return: the departure is announced regardless
removeBeginAnnounces(M, user_id) ==
    [M |-> IF get(M, user_id) = NoChar THEN dispatchRemoveFromPlayerList(M, user_id) ELSE M,
     saving |-> get(M, user_id)]

\* remove(user_id) up to its await: lines 486-495.  `saving` is the character
\* whose save() the call now waits for, NoChar when the call has returned
removeBegin(M, user_id) == [M |-> M, saving |-> get(M, user_id)]

\* a variant without the try/catch around the save: a rejected save ends the call
removeResumeRethrows(M, c, user_id, ok) ==
    IF ok THEN removeTail(saveFinish(M, c, ok), c, user_id) ELSE M

\* remove(user_id) from the moment save() settles: the catch of lines 495-497
\* swallows a rejected save, then lines 499-513 run
removeResume(M, c, user_id, ok) == removeTail(saveFinish(M, c, ok), c, user_id)

\* manage(character) from "load the character abilities" on: lines 445-479
manageTail(M, c) ==
    LET u  == M.chr[c].user_id
        f  == FactionOf(u)
        M1 == IF f # "" THEN [M EXCEPT !.factions[f] = @ \cup {c}] ELSE M
        M2 == [M1 EXCEPT !.characters = Append(@, c)]
        M3 == dispatchUpdatePlayerList(M2, u)
        room == getLocationId(M3.chr[c].location)
        M4 == eventToRoom(M3, room, "info", <<u, "emerges from a nearby building">>, {u})
        M5 == dispatchToRoom(M4, room, "JOINED_GRID", joinedGrid(M4, c))
    IN  socketJoin(M5, u, room)

\* manage(character) up to its first suspension: lines 430-443.  When a prior
\* session is replaced the handler is suspended inside remove() -> save().
manageBegin(M, c, wasLoggedIn) ==
    LET existingCharacter == find(M, M.chr[c].user_id)
    IN  IF wasLoggedIn /\ existingCharacter # NoChar
        THEN [suspended |-> TRUE, old |-> existingCharacter,
              M |-> [M EXCEPT !.chr[c].targetedBy = @ \cup M.chr[existingCharacter].targetedBy]]
        ELSE [suspended |-> FALSE, old |-> NoChar, M |-> manageTail(M, c)]

(***************************************************************************)
(* Heap: Character objects no longer reachable are dropped.                *)
(***************************************************************************)
Refs(M, i) == (M.chr[i].targetedBy \cup {M.chr[i].target}) \cap Insts

RECURSIVE Reach(_, _)
Reach(M, S) ==
    LET T == S \cup UNION {Refs(M, i) : i \in S}
    IN  IF T = S THEN S ELSE Reach(M, T)

Collect(M, ts) ==
    LET roots == (SeqToSet(M.characters) \cup {ts[t].inst : t \in DOMAIN ts}
                    \cup {ts[t].old : t \in DOMAIN ts}
                    \cup UNION {M.factions[f] : f \in FactionIds}
                    \cup {M.sweep.saves[i].c : i \in 1..Len(M.sweep.saves)}) \cap Insts
        live == Reach(M, roots)
    IN  [M EXCEPT !.chr = [i \in Insts |-> IF i \in live THEN M.chr[i] ELSE Free],
                  !.cooldowns = [i \in Insts |-> IF i \in live THEN M.cooldowns[i] ELSE NoCooldown]]

\* the handler (or step of a handler) that ran last, the user it ran for, and
\* what the call gave back to its caller: "" for nothing, "threw" for an
\* exception, else the returned value
OpRet(name, user_id, ret) == [op |-> name, user |-> user_id, ret |-> ret]

Op(name, user_id) == OpRet(name, user_id, "")

(***************************************************************************)
(* Game.init(): the boot sequence, started by the Game constructor.        *)
(***************************************************************************)
\* the managers in the order in which init() calls their init()
Subsystems == <<"items", "maps", "factions", "shops", "structures", "commands",
                "characters", "skills">>

\* the managers whose init() resolves with the number of records it loaded
Counted == {"items", "maps", "factions"}

\* whether the manager's init() returns a promise: CharacterManager.init()
\* (lines 290-293) is a plain method without a return value; the other
\* managers are not part of this source and return one, as init() expects
returnsPromise(name) == name # "characters"

\* the Game object before the constructor calls init(): `called` and `done`
\* list the managers whose init() was called and has completed, `failed`
\* says that a manager's promise rejected, `console` holds the lines logged
Constructed == [pc |-> "new", called |-> <<>>, done |-> <<>>, failed |-> FALSE,
                console |-> <<>>, timers |-> FALSE, listening |-> FALSE]

\* init() from the call of the k-th manager's init() to its next await, or to
\* its end: lines 88-124.  Calling .then on the undefined that a plain method
\* returns throws, which rejects init()
initCall(b, k) ==
    IF k > Len(Subsystems)
    THEN [b EXCEPT !.timers = TRUE, !.listening = TRUE, !.pc = "resolved"]
    ELSE IF returnsPromise(Subsystems[k])
    THEN [b EXCEPT !.called = Append(@, Subsystems[k]), !.pc = "await"]
    ELSE [b EXCEPT !.called = Append(@, Subsystems[k]), !.done = Append(@, Subsystems[k]),
                   !.console = Append(@, [who |-> Subsystems[k], count |-> 0]),
                   !.pc = "rejected"]

\* init() resumed when the promise it awaits settles: a rejection rejects
\* init(), a resolution logs the .then line and goes on to the next manager
initResume(b, ok, count) ==
    IF ~ok THEN [b EXCEPT !.failed = TRUE, !.pc = "rejected"]
    ELSE initCall([b EXCEPT !.done = Append(@, Subsystems[Len(b.called)]),
                            !.console = Append(@, [who |-> Subsystems[Len(b.called)],
                                                   count |-> count])],
                  Len(b.called) + 1)

(***************************************************************************)
(* The client (class App): onDispatch(data) hands the events the server    *)
(* sent to the redux store.                                                *)
(***************************************************************************)
\* the arrays an event may carry as its payload's ignore list
IgnoreLists == UNION {[1..n -> Users] : n \in 0..MaxIgnore}

\* the events that reach the client: with or without a payload, the payload
\* with or without an ignore list and a routeTo
Events ==
    {[hasPayload |-> FALSE, hasIgnore |-> FALSE, ignore |-> <<>>, routeTo |-> ""]}
      \cup [hasPayload : {TRUE}, hasIgnore : {FALSE}, ignore : {<<>>}, routeTo : {"", "/game"}]
      \cup [hasPayload : {TRUE}, hasIgnore : {TRUE}, ignore : IgnoreLists,
            routeTo : {"", "/game"}]

\* the App component once mounted: no character is selected, the store was
\* handed nothing and the router was pushed nowhere
Mounted == [character |-> "", store |-> <<>>, history |-> <<>>]

\* Array.prototype.includes
includes(array, value) == \E i \in 1..Len(array) : array[i] = value

\* a variant that drops every event that carries an ignore list
onDispatchDropsListed(cl, data) ==
    IF data.hasPayload /\ data.hasIgnore
    THEN [threw |-> FALSE, cl |-> cl]
    ELSE IF ~data.hasPayload
    THEN [threw |-> TRUE, cl |-> [cl EXCEPT !.store = Append(@, data)]]
    ELSE [threw |-> FALSE,
          cl |-> [cl EXCEPT !.store = Append(@, data),
                            !.history = IF data.routeTo # "" THEN Append(@, data.routeTo)
                                        ELSE @]]

\* onDispatch(data): lines 39-56.  Reading routeTo of a missing payload
\* (line 53) throws after the event was handed to the store
onDispatch(cl, data) ==
    IF data.hasPayload /\ data.hasIgnore /\ cl.character # ""
       /\ includes(data.ignore, cl.character)
    THEN [threw |-> FALSE, cl |-> cl]
    ELSE IF ~data.hasPayload
    THEN [threw |-> TRUE, cl |-> [cl EXCEPT !.store = Append(@, data)]]
    ELSE [threw |-> FALSE,
          cl |-> [cl EXCEPT !.store = Append(@, data),
                            !.history = IF data.routeTo # "" THEN Append(@, data.routeTo)
                                        ELSE @]]

\* what the caller of onDispatch saw
dispatchOutcome(cl, r) ==
    IF r.threw THEN "threw" ELSE IF r.cl = cl THEN "ignored" ELSE "forwarded"

\* the server's event arrives at the client
OnDispatch(data) ==
    /\ Len(app.store) < MaxStore
    /\ app' = onDispatch(app, data).cl
    /\ lastOp' = OpRet("onDispatch", app.character,
                       dispatchOutcome(app, onDispatch(app, data)))
    /\ UNCHANGED <<characters, chr, cooldowns, locations, factions, tasks, sweep, boot, game>>

\* state.character.selected changes (mapStateToProps, lines 138-143)
CharacterSelected(u) ==
    /\ app.character # u
    /\ app' = [app EXCEPT !.character = u]
    /\ lastOp' = Op("characterSelected", u)
    /\ UNCHANGED <<characters, chr, cooldowns, locations, factions, tasks, sweep, boot, game>>

\* the fields of M become the next state
Assign(M, ts, op) ==
    /\ characters' = M.characters
    /\ chr' = M.chr
    /\ cooldowns' = M.cooldowns
    /\ locations' = M.locations
    /\ factions' = M.factions
    /\ sweep' = M.sweep
    /\ game' = M.game
    /\ tasks' = ts
    /\ boot' = boot
    /\ app' = app
    /\ lastOp' = op

Commit(M0, ts, op) == Assign(Collect(M0, ts), ts, op)

FreeInsts == {i \in Insts : chr[i] = Free}
\* the calls in flight: MaxTasks slots for the calls made on behalf of a
\* socket's requests, and one more for the remove() that the 'disconnect'
\* handler starts (lines 282-284)
DisconnectSlot == MaxTasks + 1

FreeTasks == {t \in 1..MaxTasks : tasks[t] = Idle}

Init ==
    /\ characters = <<>>
    /\ chr = [i \in Insts |-> Free]
    /\ cooldowns = [i \in Insts |-> NoCooldown]
    /\ locations = UndefinedLocations
    /\ factions = [f \in FactionIds |-> {}]
    /\ tasks = [t \in 1..DisconnectSlot |-> Idle]
    /\ sweep = NoSweep
    /\ boot = initCall(Constructed, 1)
    /\ game = NoTimers
    /\ app = Mounted
    /\ lastOp = Op("init", "")

(***************************************************************************)
(* Handlers: load, create, manage, remove.                                 *)
(***************************************************************************)
NewTask(kind, pc, user, inst, old) ==
    [kind |-> kind, pc |-> pc, user |-> user, inst |-> inst, old |-> old]

\* what a handler that has just run manage() up to its first suspension does next
AfterManage(kind, user, c, r) ==
    IF r.suspended THEN NewTask(kind, "manageSave", user, c, r.old)
    ELSE IF kind = "load" THEN NewTask(kind, "inventory", user, c, NoChar)
    ELSE Idle

\* load(userData): the call, suspended at dbLoad
Load(u) ==
    /\ FreeTasks # {}
    /\ Commit(Cur, [tasks EXCEPT ![Min(FreeTasks)] = NewTask("load", "dbLoad", u, NoChar, NoChar)],
              Op("load", u))

\* load(userData) resumed at line 523 without a record: dbLoad resolved with
\* null (ok), and load() returns null, or dbLoad rejected, and the await
\* throws out of load(), which has no try/catch
loadNone(M, ok) == [threw |-> ~ok, M |-> M, ret |-> IF ok THEN "null" ELSE ""]

\* load(userData) when storage answers with no record (null) or fails: lines 523-527
LoadNone(t, ok) ==
    /\ tasks[t].kind = "load" /\ tasks[t].pc = "dbLoad"
    /\ Commit(loadNone(Cur, ok).M, [tasks EXCEPT ![t] = Idle],
              OpRet("loadNone", tasks[t].user,
                    IF loadNone(Cur, ok).threw THEN "threw" ELSE loadNone(Cur, ok).ret))

\* load(userData) when storage answers with the user's record: lines 525-532,
\* into manage(); wasLoggedIn is what socketManager.clearTimer returns
LoadResume(t, location, wasLoggedIn) ==
    /\ tasks[t].kind = "load" /\ tasks[t].pc = "dbLoad"
    /\ LET u == tasks[t].user
       IN       /\ FreeInsts # {}
                /\ LET c  == Min(FreeInsts)
                       M0 == [Cur EXCEPT !.chr[c] = newCharacter(u, [location |-> location])]
                       r  == manageBegin(M0, c, wasLoggedIn)
                   IN  Commit(r.M, [tasks EXCEPT ![t] = AfterManage("load", u, c, r)],
                              Op(IF r.suspended THEN "manageBegin" ELSE "manage", u))

\* load(userData) when loadCharacterInventory answers: lines 534-545
LoadInventory(t) ==
    /\ tasks[t].kind = "load" /\ tasks[t].pc = "inventory"
    /\ Commit(Cur, [tasks EXCEPT ![t] = Idle],
              Op("loadDone", tasks[t].user))

\* create(userData, city): the call, suspended at dbCreate's saveAsync
Create(u) ==
    /\ FreeTasks # {}
    /\ Commit(Cur, [tasks EXCEPT ![Min(FreeTasks)] = NewTask("create", "dbCreate", u, NoChar, NoChar)],
              Op("create", u))

\* create(userData, city) when the new record has been stored: lines 585-589.
\* dbCreate gives the record the map `city` only; the cell is the storage
\* schema's default, so the record's location is any cell of any map.
CreateResume(t, location, wasLoggedIn) ==
    /\ tasks[t].kind = "create" /\ tasks[t].pc = "dbCreate"
    /\ FreeInsts # {}
    /\ LET u  == tasks[t].user
           c  == Min(FreeInsts)
           M0 == [Cur EXCEPT !.chr[c] = newCharacter(u, [location |-> location])]
           r  == manageBegin(M0, c, wasLoggedIn)
       IN  Commit(r.M, [tasks EXCEPT ![t] = AfterManage("create", u, c, r)],
                  Op(IF r.suspended THEN "manageBegin" ELSE "manage", u))

\* manage(character) resumed when the old session's save() settles: the rest
\* of remove() (lines 495-513), then the rest of manage() (lines 445-479)
ManageResume(t, ok) ==
    /\ tasks[t].pc = "manageSave"
    /\ LET c  == tasks[t].inst
           M1 == saveFinish(Cur, tasks[t].old, ok)
           M2 == removeTail(M1, tasks[t].old, tasks[t].user)
           M3 == manageTail(M2, c)
       IN  Commit(M3, [tasks EXCEPT ![t] = AfterManage(tasks[t].kind, tasks[t].user, c,
                                                       [suspended |-> FALSE, old |-> NoChar])],
                  Op("manageReplace", tasks[t].user))

\* remove(user_id), called by the 'disconnect' handler: lines 486-494
RemoveBegun(r, u) ==
    IF r.saving = NoChar
    THEN Commit(r.M, tasks, Op("removeNone", u))
    ELSE /\ FreeTasks # {}
         /\ Commit(r.M, [tasks EXCEPT ![Min(FreeTasks)] =
                              NewTask("remove", "save", u, NoChar, r.saving)],
                   Op("remove", u))
Remove(u) == RemoveBegun(removeBegin(Cur, u), u)

\* the 'disconnect' handler of the constructor: remove(user.user_id), lines 282-284
Disconnected(r, u) ==
    IF r.saving = NoChar
    THEN Commit(r.M, tasks, Op("removeNone", u))
    ELSE /\ tasks[DisconnectSlot] = Idle
         /\ Commit(r.M, [tasks EXCEPT ![DisconnectSlot] =
                              NewTask("remove", "save", u, NoChar, r.saving)],
                   Op("disconnect", u))
Disconnect(u) == Disconnected(removeBegin(Cur, u), u)

\* remove(user_id) resumed when save() settles: lines 495-513
RemoveResume(t, ok) ==
    /\ tasks[t].kind = "remove" /\ tasks[t].pc = "save"
    /\ Commit(removeResume(Cur, tasks[t].old, tasks[t].user, ok), [tasks EXCEPT ![t] = Idle],
              Op(IF ok THEN "removed" ELSE "removedUnsaved", tasks[t].user))

(***************************************************************************)
(* saveAll(): one save() per entry of the registry, gathered by            *)
(* Promise.all.                                                            *)
(***************************************************************************)
\* a variant without the check of lines 638-640: the write is attempted with
\* whatever get() returned
saveSkipsLookupCheck(M, user_id) ==
    IF user_id = ""
    THEN [threw |-> TRUE, c |-> NoChar, M |-> M]
    ELSE [threw |-> FALSE, c |-> get(M, user_id),
          M |-> Emit(M, Ev("dbSave", user_id, "", <<>>, {}, get(M, user_id), 0))]

\* save(user_id) up to its first await: lines 631-643.  M is the machine the
\* call leaves when it throws or suspends
save(M, user_id) ==
    IF user_id = "" \/ get(M, user_id) = NoChar
    THEN [threw |-> TRUE, c |-> NoChar, M |-> M]
    ELSE [threw |-> FALSE, c |-> get(M, user_id), M |-> M]

\* the callback of line 617 for one entry, up to its await: a save() that
\* throws at once is caught at line 620
saveEntry(M, c) ==
    [user |-> M.chr[c].user_id, c |-> save(M, M.chr[c].user_id).c,
     st |-> IF save(M, M.chr[c].user_id).threw THEN "failed" ELSE "pending"]

\* saveAll() up to its await of Promise.all: lines 616-623
saveAll(M) ==
    [M EXCEPT !.sweep = [on |-> TRUE,
                         saves |-> [i \in 1..Len(M.characters) |-> saveEntry(M, M.characters[i])]]]

\* a variant without the try/catch of the callback: the entry's promise rejects
saveSettleUncaught(M, i, ok) ==
    IF ok THEN [saveFinish(M, M.sweep.saves[i].c, ok) EXCEPT !.sweep.saves[i].st = "saved"]
    ELSE [M EXCEPT !.sweep.saves[i].st = "rejected"]

\* the save() of entry i settles: dbSave/saveInventory resolved (ok), or one of
\* them rejected and the catch of lines 620-622 hands the error to onError
saveSettle(M, i, ok) ==
    IF ok THEN [saveFinish(M, M.sweep.saves[i].c, ok) EXCEPT !.sweep.saves[i].st = "saved"]
    ELSE [onError(M, M.sweep.saves[i].user) EXCEPT !.sweep.saves[i].st = "failed"]

\* Promise.all of line 617: rejects when one of the promises rejected
saveAllResult(sw) ==
    IF \E i \in 1..Len(sw.saves) : sw.saves[i].st = "rejected" THEN "rejected" ELSE "resolved"

\* the promise of the manager that init() waits for settles
InitSettle(ok, count) ==
    /\ boot.pc = "await"
    /\ Subsystems[Len(boot.called)] \notin Counted => count = 0
    /\ boot' = initResume(boot, ok, count)
    /\ lastOp' = OpRet("init", "", initResume(boot, ok, count).pc)
    /\ UNCHANGED <<characters, chr, cooldowns, locations, factions, tasks, sweep, game,
                   app>>

(***************************************************************************)
(* Game timers: setupGameTimers() and onTimer().                           *)
(***************************************************************************)
\* setupGameTimers(): lines 158-165; enabled is this.config.game.timers seen
\* as the flag of each named timer
setupGameTimers(M, enabled) ==
    [M EXCEPT !.game.timers = {n \in TimerNames : enabled[n]}, !.game.setup = TRUE]

\* a variant in which a failed resupply is announced like a successful one
resupplySettleAnnouncesAlways(M, ok) ==
    dispatchToServer([M EXCEPT !.game.resupply = @ - 1], "ADD_NEWS", <<"The sun rises once again">>)

\* the promise of shopManager.resupplyAll() settles: .then dispatches the
\* news to the server, .catch swallows a failure (lines 141-147)
resupplySettle(M, ok) ==
    IF ok THEN dispatchToServer([M EXCEPT !.game.resupply = @ - 1], "ADD_NEWS",
                                <<"The sun rises once again">>)
    ELSE [M EXCEPT !.game.resupply = @ - 1]

\* onTimer(timerName): lines 127-153
onTimer(M, timerName) ==
    CASE timerName = "autosave" -> saveAll(M)
      [] timerName = "newday" ->
            Emit([M EXCEPT !.game.resupply = @ + 1], Ev("resupplyAll", "", "", <<>>, {}, NoChar, 0))
      [] OTHER -> M

SetupGameTimers(enabled) ==
    /\ ~game.setup
    /\ Commit(setupGameTimers(Cur, enabled), tasks, Op("setupGameTimers", ""))

\* an interval fires; a sweep or MaxResupply resupplies in flight bound the
\* number of calls that wait for storage
OnTimer(timerName) ==
    /\ timerName \in game.timers
    /\ timerName = "autosave" => ~sweep.on
    /\ timerName = "newday" => game.resupply < MaxResupply
    /\ Commit(onTimer(Cur, timerName), tasks, Op("onTimer", timerName))

ResupplySettle(ok) ==
    /\ game.resupply > 0
    /\ Commit(resupplySettle(Cur, ok), tasks,
              Op(IF ok THEN "resupplied" ELSE "resupplyFailed", ""))

\* the properties the Game constructor assigns to the new object (lines 24-47);
\* only CharacterManager's constructor assigns a `Game` property (line 275)
GameProperties == {"config", "logger", "timers", "socketManager", "accountManager",
                   "characterManager", "mapManager", "structureManager", "itemManager",
                   "shopManager", "commandManager", "factionManager", "abilityManager",
                   "skillManager", "cooldownManager", "npcManager", "effectManager"}

\* shutdown(callback) up to its await: lines 237-239.  Line 238 reads
\* this.Game.logger; when this.Game is undefined the read throws and the
\* call rejects before saveAll() is called
shutdown(M) ==
    IF "Game" \notin GameProperties
    THEN [M EXCEPT !.game.down = "rejected"]
    ELSE [saveAll(M) EXCEPT !.game.down = "saving"]

\* the server is told to shut down, once
Shutdown ==
    /\ game.down = "none" /\ ~sweep.on
    /\ Commit(shutdown(Cur), tasks, OpRet("shutdown", "", shutdown(Cur).game.down))

\* save(user_id) called on its own: it throws, or waits for storage
SaveBegun(r, user_id) ==
    IF r.threw
    THEN Commit(r.M, tasks, OpRet("save", user_id, "threw"))
    ELSE /\ FreeTasks # {}
         /\ Commit(r.M, [tasks EXCEPT ![Min(FreeTasks)] =
                              NewTask("save", "save", user_id, NoChar, r.c)],
                   Op("save", user_id))
Save(user_id) == SaveBegun(save(Cur, user_id), user_id)

\* that save() resumed when storage settles: lines 645-648
SaveResume(t, ok) ==
    /\ tasks[t].kind = "save" /\ tasks[t].pc = "save"
    /\ Commit(saveFinish(Cur, tasks[t].old, ok), [tasks EXCEPT ![t] = Idle],
              OpRet("saved", tasks[t].user, IF ok THEN "" ELSE "threw"))

\* the callback of the 'autosave' timer (lines 131-136), and shutdown(), call saveAll()
SaveAll ==
    /\ ~sweep.on
    /\ Commit(saveAll(Cur), tasks, Op("saveAll", ""))

SaveSettle(i, ok) ==
    /\ sweep.on /\ i \in 1..Len(sweep.saves) /\ sweep.saves[i].st = "pending"
    /\ Commit(saveSettle(Cur, i, ok), tasks, Op("saveSettle", sweep.saves[i].user))

\* every promise has settled: the await of line 617 ends and saveAll() settles
SaveAllEnd ==
    /\ sweep.on /\ \A i \in 1..Len(sweep.saves) : sweep.saves[i].st # "pending"
    /\ Commit([Cur EXCEPT !.sweep = NoSweep], tasks, OpRet("saveAllEnd", "", saveAllResult(sweep)))

(***************************************************************************)
(* What the rest of the game does to a character between the registry's    *)
(* handlers: aiming, hiding, the cooldown clock, the grid index methods.   *)
(***************************************************************************)
Online == SeqToSet(characters)

\* a character aims at another one in its cell: setTarget -> gridLock
Aim(a, v) ==
    /\ a \in Online /\ v \in Online /\ a # v
    /\ chr[a].location = chr[v].location
    /\ chr[a].target # v
    /\ LET M1 == releaseTarget(Cur, a)
           M2 == gridLock([M1 EXCEPT !.chr[a].target = v], v, a)
       IN  Commit(M2, tasks, Op("aim", ""))

\* a non-player entity aims at a character
NpcAim(v) ==
    /\ v \in Online /\ NpcId \notin chr[v].targetedBy
    /\ Commit(gridLock(Cur, v, NpcId), tasks, Op("aim", ""))

\* an aim is released
Release(a) ==
    /\ a \in Online /\ chr[a].target # NoChar
    /\ Commit(releaseTarget(Cur, a), tasks, Op("release", ""))

NpcRelease(v) ==
    /\ v \in Insts /\ NpcId \in chr[v].targetedBy
    /\ Commit([Cur EXCEPT !.chr[v].targetedBy = @ \ {NpcId}], tasks,
              Op("release", ""))

\* the /hide and /unhide commands of user u's socket
SetHidden(u, h) ==
    LET c == get(Cur, u)
    IN  /\ c # NoChar /\ chr[c].hidden # h
        /\ Commit([Cur EXCEPT !.chr[c].hidden = h], tasks, Op("hidden", u))

\* the clock of a running cooldown advances; at 0 the entry has expired
Tick(c) ==
    /\ cooldowns[c].ticks > 0
    /\ Commit([Cur EXCEPT !.cooldowns[c].ticks = @ - 1], tasks, Op("tick", ""))

GridAdd(c, position) ==
    /\ c \in Online
    /\ LET r == addToGrid(Cur, position, c)
       IN  Commit(r.M, tasks, Op("addToGrid", ""))

GridRemove(c, position) ==
    /\ c \in Online
    /\ LET r == removeFromGrid(Cur, position, c)
       IN  Commit(r.M, tasks, Op("removeFromGrid", ""))

(***************************************************************************)
(* move(socket, action).                                                   *)
(***************************************************************************)
\* a variant of the try block that starts the clock as soon as the
\* destination is known to be valid
MoveCallsStartEarly ==
    <<"isValidLocation", "start", "releaseTarget", "leave", "leavesEvent", "leftGrid",
      "updateLocation", "strollsEvent", "joinedGrid", "join", "updateClient",
      "mapUpdateClient">>

\* a variant that updates the location before the old room is told
MoveCallsUpdateEarly ==
    <<"isValidLocation", "releaseTarget", "leave", "updateLocation", "leavesEvent",
      "leftGrid", "strollsEvent", "joinedGrid", "join", "updateClient",
      "mapUpdateClient", "start">>

\* the calls of move()'s try block, in order (lines 836-902)
MoveCalls ==
    <<"isValidLocation", "releaseTarget", "leave", "leavesEvent", "leftGrid",
      "updateLocation", "strollsEvent", "joinedGrid", "join", "updateClient",
      "mapUpdateClient", "start">>

\* a variant of the switch that names the y axis the wrong way round
directionOutFlipped(grid, direction) ==
    IF grid = "y" THEN (IF direction = 1 THEN "North" ELSE "South")
    ELSE IF grid = "x" THEN (IF direction = 1 THEN "East" ELSE "West")
    ELSE "undefined"

\* lines 845-864
directionOut(grid, direction) ==
    IF grid = "y" THEN (IF direction = 1 THEN "South" ELSE "North")
    ELSE IF grid = "x" THEN (IF direction = 1 THEN "East" ELSE "West")
    ELSE "undefined"

directionIn(grid, direction) ==
    IF grid = "y" THEN (IF direction = 1 THEN "North" ELSE "South")
    ELSE IF grid = "x" THEN (IF direction = 1 THEN "West" ELSE "East")
    ELSE "undefined"

\* the k-th call of the try block after isValidLocation (k in 2..12)
moveCall(M, k, c, newLocation, grid, direction) ==
    LET u    == M.chr[c].user_id
        room == getLocationId(M.chr[c].location)
    IN  CASE MoveCalls[k] = "releaseTarget" -> releaseTarget(M, c)
          [] MoveCalls[k] = "leave" -> socketLeave(M, u, room)
          [] MoveCalls[k] = "leavesEvent" ->
                eventToRoom(M, room, "info", <<u, "leaves to the", directionOut(grid, direction)>>, {u})
          [] MoveCalls[k] = "leftGrid" -> dispatchToRoom(M, room, "LEFT_GRID", <<u>>)
          [] MoveCalls[k] = "updateLocation" ->
                updateLocation(M, c, newLocation.map, newLocation.x, newLocation.y)
          [] MoveCalls[k] = "strollsEvent" ->
                eventToRoom(M, room, "info", <<u, "strolls in from the", directionIn(grid, direction)>>, {u})
          [] MoveCalls[k] = "joinedGrid" -> dispatchToRoom(M, room, "JOINED_GRID", joinedGrid(M, c))
          [] MoveCalls[k] = "join" -> socketJoin(M, u, room)
          [] MoveCalls[k] = "updateClient" -> updateClient(M, u)
          [] MoveCalls[k] = "mapUpdateClient" -> Emit(M, Ev("mapUpdate", u, "", <<>>, {}, NoChar, 0))
          [] MoveCalls[k] = "start" -> cooldownStart(M, c)

\* calls k..Len(MoveCalls) of the try block; call number failAt throws (0: none does)
RECURSIVE moveTry(_, _, _, _, _, _, _)
moveTry(M, k, c, newLocation, grid, direction, failAt) ==
    IF k > Len(MoveCalls) THEN M
    ELSE IF k = failAt THEN onError(M, M.chr[c].user_id)
    ELSE moveTry(moveCall(M, k, c, newLocation, grid, direction), k + 1, c, newLocation,
                 grid, direction, failAt)

\* a variant that tells the mover about an invalid destination
moveReservedWarns(M, character, grid, direction, failAt) ==
    LET newCooldown == cooldownAdd(M, character)
        actionNewLocation == [M.chr[character].location EXCEPT ![grid] = @ + direction]
        newLocation == isValidLocation(actionNewLocation.map, actionNewLocation.x,
                                       actionNewLocation.y)
    IN  IF failAt = 1 THEN onError(newCooldown, M.chr[character].user_id)
        ELSE IF newLocation = NoLocation
        THEN eventToSocket(newCooldown, M.chr[character].user_id, "warning",
                           <<"You can't move there.">>)
        ELSE moveTry(newCooldown, 2, character, newLocation, grid, direction, failAt)

\* move() from line 830 on: the cooldown is reserved, then the try block runs
moveReserved(M, character, grid, direction, failAt) ==
    LET newCooldown == cooldownAdd(M, character)
        actionNewLocation == [M.chr[character].location EXCEPT ![grid] = @ + direction]
        newLocation == isValidLocation(actionNewLocation.map, actionNewLocation.x,
                                       actionNewLocation.y)
    IN  IF failAt = 1 THEN onError(newCooldown, M.chr[character].user_id)
        ELSE IF newLocation = NoLocation THEN newCooldown
        ELSE moveTry(newCooldown, 2, character, newLocation, grid, direction, failAt)

\* a variant of move() without the check of lines 810-817
moveSkipsLockCheck(M, user_id, grid, direction, failAt) ==
    LET character == get(M, user_id)
    IN  IF character = NoChar
        THEN eventToSocket(M, user_id, "error", <<"You do not appear to be logged in any more.">>)
        ELSE IF M.chr[character].hidden
        THEN eventToSocket(M, user_id, "warning", <<"You can't move as long as you are hidden.">>)
        ELSE IF ticksLeft(M, character) # 0
        THEN M
        ELSE moveReserved(M, character, grid, direction, failAt)

\* a variant of move() without the check of lines 824-828
moveSkipsCooldownCheck(M, user_id, grid, direction, failAt) ==
    LET character == get(M, user_id)
    IN  IF character = NoChar
        THEN eventToSocket(M, user_id, "error", <<"You do not appear to be logged in any more.">>)
        ELSE IF M.chr[character].targetedBy # {}
        THEN eventToSocket(M, user_id, "warning",
                           <<"You can't move as the following players are aiming at you">>)
        ELSE IF M.chr[character].hidden
        THEN eventToSocket(M, user_id, "warning", <<"You can't move as long as you are hidden.">>)
        ELSE moveReserved(M, character, grid, direction, failAt)

\* a variant of move() that looks at `hidden` before `targetedBy`
moveChecksHiddenFirst(M, user_id, grid, direction, failAt) ==
    LET character == get(M, user_id)
    IN  IF character = NoChar
        THEN eventToSocket(M, user_id, "error", <<"You do not appear to be logged in any more.">>)
        ELSE IF M.chr[character].hidden
        THEN eventToSocket(M, user_id, "warning", <<"You can't move as long as you are hidden.">>)
        ELSE IF M.chr[character].targetedBy # {}
        THEN eventToSocket(M, user_id, "warning",
                           <<"You can't move as the following players are aiming at you">>)
        ELSE IF ticksLeft(M, character) # 0
        THEN M
        ELSE moveReserved(M, character, grid, direction, failAt)

\* move(socket, action) of the socket of user_id, action.payload = {grid, direction}
move(M, user_id, grid, direction, failAt) ==
    LET character == get(M, user_id)
    IN  IF character = NoChar
        THEN eventToSocket(M, user_id, "error", <<"You do not appear to be logged in any more.">>)
        ELSE IF M.chr[character].targetedBy # {}
        THEN eventToSocket(M, user_id, "warning",
                           <<"You can't move as the following players are aiming at you">>)
        ELSE IF M.chr[character].hidden
        THEN eventToSocket(M, user_id, "warning", <<"You can't move as long as you are hidden.">>)
        ELSE IF ticksLeft(M, character) # 0
        THEN M
        ELSE moveReserved(M, character, grid, direction, failAt)

\* the ledger's reserved-and-never-started entries are capped at MaxPending
Move(u, grid, direction, failAt) ==
    LET M == move(Cur, u, grid, direction, failAt)
    IN  /\ \A c \in Insts : M.cooldowns[c].pending <= MaxPending
        /\ Commit(M, tasks, Op("move", u))

(***************************************************************************)
(* kill(user_id, killer).                                                  *)
(***************************************************************************)
\* user_id of a contributor or killer: a non-player entity has none
userIdOf(M, e) == IF e \in Insts THEN M.chr[e].user_id ELSE ""

\* character.die(): the loot the character drops
die(M, c, items, cash, exp) ==
    [items |-> items, cash |-> cash, exp |-> exp, targetedBy |-> M.chr[c].targetedBy]

\* a variant of the split that rounds up
floorDivRoundsUp(a, b) == IF b = 0 THEN 0 ELSE (a + b - 1) \div b

\* Math.floor(a / b) of lines 949-950; with no contributor the quotient is not
\* a number and is never used
floorDiv(a, b) == IF b = 0 THEN 0 ELSE a \div b

\* lines 951-960, for the contributors in list order
RECURSIVE reward(_, _, _, _)
reward(M, contributors, cashReward, expReward) ==
    IF contributors = <<>> THEN M
    ELSE LET char == Head(contributors)
             M1 == Emit(M, Ev("updateCash", userIdOf(M, char), "", <<>>, {}, char, cashReward))
             M2 == IF userIdOf(M, char) # ""
                   THEN updateClient(Emit(M1, Ev("updateExp", userIdOf(M, char), "", <<>>, {}, char,
                                                expReward)),
                                     userIdOf(M, char))
                   ELSE M1
         IN  reward(M2, Tail(contributors), cashReward, expReward)

\* a variant that drops the loot where the victim respawns
RECURSIVE dropItemsAtRespawn(_, _, _)
dropItemsAtRespawn(M, oldLocation, n) ==
    IF n = 0 THEN M
    ELSE dropItemsAtRespawn(
             Emit(M, Ev("drop",
                        getLocationId([map |-> oldLocation.map,
                                       x |-> mapGet(oldLocation.map).respawn.x,
                                       y |-> mapGet(oldLocation.map).respawn.y]),
                        "", <<>>, {}, NoChar, n)),
             oldLocation, n - 1)

\* lines 944-946
RECURSIVE dropItems(_, _, _)
dropItems(M, oldLocation, n) ==
    IF n = 0 THEN M
    ELSE dropItems(Emit(M, Ev("drop", getLocationId(oldLocation), "", <<>>, {}, NoChar, n)),
                   oldLocation, n - 1)

\* a variant that respawns every victim on the first map
respawnLocationOnCity(M, character) ==
    [map |-> "city", x |-> mapGet("city").respawn.x, y |-> mapGet("city").respawn.y]

\* lines 918 and 926-929: the respawn point of the map the character is on
respawnLocation(M, character) ==
    LET gameMap == mapGet(M.chr[character].location.map)
    IN  [map |-> gameMap.id, x |-> gameMap.respawn.x, y |-> gameMap.respawn.y]

\* a variant that cites the killer's share of the cash
notifyKillerOfShare(M, killer, u, droppedLoot) ==
    IF userIdOf(M, killer) # ""
    THEN Emit(M, Ev("user", userIdOf(M, killer), "info", <<"You find money on body", u>>, {},
                    NoChar, floorDiv(droppedLoot.cash, Cardinality(droppedLoot.targetedBy))))
    ELSE M

\* lines 962-965: the message quotes droppedLoot.cash (field n) and names the victim u
notifyKiller(M, killer, u, droppedLoot) ==
    IF userIdOf(M, killer) # ""
    THEN Emit(M, Ev("user", userIdOf(M, killer), "info", <<"You find money on body", u>>, {},
                    NoChar, droppedLoot.cash))
    ELSE M

\* kill(user_id, killer); killer is a registered character or the non-player
\* entity.  With no character registered for user_id line 918 throws.
kill(M, user_id, killer, items, cash, exp) ==
    LET character == get(M, user_id)
    IN  IF character = NoChar THEN [threw |-> TRUE, M |-> M, ret |-> ""]
        ELSE
        LET u == M.chr[character].user_id
            newLocation == respawnLocation(M, character)
            droppedLoot == die(M, character, items, cash, exp)
            oldLocationId == getLocationId(M.chr[character].location)
            oldLocation == M.chr[character].location
            M1 == socketLeave(M, u, oldLocationId)
            M2 == dispatchToRoom(M1, oldLocationId, "LEFT_GRID", <<u>>)
            M3 == updateLocation(M2, character, newLocation.map, newLocation.x, newLocation.y)
            M4 == dropItems(M3, oldLocation, droppedLoot.items)
            N  == Cardinality(droppedLoot.targetedBy)
            cashReward == floorDiv(droppedLoot.cash, N)
            expReward == floorDiv(droppedLoot.exp, N)
            M5 == reward(M4, SetToSeq(droppedLoot.targetedBy), cashReward, expReward)
            M6 == notifyKiller(M5, killer, u, droppedLoot)
            M7 == dispatchToRoom(M6, oldLocationId, "UPDATE_GROUND_ITEMS", <<oldLocationId>>)
            newRoom == getLocationId(M7.chr[character].location)
            M8 == dispatchToRoom(M7, newRoom, "JOINED_GRID", joinedGrid(M7, character))
            M9 == socketJoin(M8, u, newRoom)
            M10 == updateClient(M9, u)
            M11 == Emit(M10, Ev("mapUpdate", u, "", <<>>, {}, NoChar, 0))
        IN  [threw |-> FALSE, M |-> M11, ret |-> oldLocationId]

\* the state and the return value (or exception) a synchronous call leaves
Returned(r, name, user_id) ==
    Commit(r.M, tasks, OpRet(name, user_id, IF r.threw THEN "threw" ELSE r.ret))

Kill(u, killer, items, cash, exp) ==
    /\ killer = NpcId \/ killer \in Online
    /\ Returned(kill(Cur, u, killer, items, cash, exp), "kill", u)

(***************************************************************************)
(* The system.  Three specifications share Init and the actions: the       *)
(* session lifecycle with every storage round trip, the movement protocol, *)
(* and the death protocol.                                                 *)
(***************************************************************************)
\* load() of a stored character, through manage()
Login ==
    \/ \E u \in Users : Load(u)
    \/ \E t \in 1..MaxTasks, loc \in ValidLocations, w \in BOOLEAN : LoadResume(t, loc, w)
    \/ \E t \in 1..MaxTasks : LoadInventory(t)
    \/ \E t \in 1..MaxTasks, ok \in BOOLEAN : ManageResume(t, ok)

Lifecycle ==
    \/ Login
    \/ \E t \in 1..MaxTasks, ok \in BOOLEAN : LoadNone(t, ok)
    \/ \E u \in Users : Create(u)
    \/ \E t \in 1..MaxTasks, loc \in ValidLocations, w \in BOOLEAN : CreateResume(t, loc, w)
    \/ \E u \in Users : Remove(u)
    \/ \E t \in 1..MaxTasks, ok \in BOOLEAN : RemoveResume(t, ok)

PlayerAiming ==
    \/ \E a \in Insts, v \in Insts : Aim(a, v)
    \/ \E a \in Insts : Release(a)

NpcAiming ==
    \/ \E v \in Insts : NpcAim(v)
    \/ \E v \in Insts : NpcRelease(v)

Grid ==
    \/ \E c \in Insts, p \in ValidLocations : GridAdd(c, p)
    \/ \E c \in Insts, p \in ValidLocations : GridRemove(c, p)

\* the user whose socket sends /hide, /unhide and move requests
Movers == {"u1"}

Axes == {"x", "y"}
Directions == {1, -1}
FailPoints == 0..Len(MoveCalls)

Moving ==
    \/ \E u \in Movers, h \in BOOLEAN : SetHidden(u, h)
    \/ \E c \in Insts : Tick(c)
    \/ \E u \in Movers, grid \in Axes, direction \in Directions, failAt \in FailPoints :
          Move(u, grid, direction, failAt)

Killing ==
    \E u \in Users, killer \in Entities, items \in 0..MaxItems, cash \in 0..MaxCash,
       exp \in 0..MaxExp : Kill(u, killer, items, cash, exp)

Removal ==
    \/ \E u \in Users : Remove(u)
    \/ \E t \in 1..MaxTasks, ok \in BOOLEAN : RemoveResume(t, ok)

Saving ==
    \/ \E u \in Users \cup {""} : Save(u)
    \/ \E t \in 1..MaxTasks, ok \in BOOLEAN : SaveResume(t, ok)

Sweep ==
    \/ SaveAll
    \/ \E i \in 1..MaxInst, ok \in BOOLEAN : SaveSettle(i, ok)
    \/ SaveAllEnd

NextSession == Lifecycle \/ PlayerAiming \/ NpcAiming \/ Grid

NextMove == Login \/ PlayerAiming \/ Moving

NextKill == Login \/ PlayerAiming \/ NpcAiming \/ Killing

Booting == \E ok \in BOOLEAN, count \in 0..MaxCount : InitSettle(ok, count)

NextBoot == Booting

SpecBoot == Init /\ [][NextBoot]_vars

\* init() under the event loop: a promise that init() awaits does settle, and
\* its continuation is then run
SpecBootLive == SpecBoot /\ WF_vars(Booting)

Timers ==
    \/ \E enabled \in [TimerNames -> BOOLEAN] : SetupGameTimers(enabled)
    \/ \E timerName \in TimerNames : OnTimer(timerName)
    \/ \E ok \in BOOLEAN : ResupplySettle(ok)

SweepSettling ==
    \/ \E i \in 1..MaxInst, ok \in BOOLEAN : SaveSettle(i, ok)
    \/ SaveAllEnd

NextTimers == Login \/ Timers \/ SweepSettling

SpecTimers == Init /\ [][NextTimers]_vars

Disconnecting ==
    \/ \E u \in Users : Disconnect(u)
    \/ \E ok \in BOOLEAN : RemoveResume(DisconnectSlot, ok)

NextReconnect == Login \/ Disconnecting

SpecReconnect == Init /\ [][NextReconnect]_vars

ShuttingDown == Shutdown

NextShutdown == Login \/ Sweep \/ ShuttingDown

\* the shutdown signal arrives, and storage answers every save it was asked for
SpecShutdown ==
    Init /\ [][NextShutdown]_vars /\ WF_vars(ShuttingDown) /\ WF_vars(SweepSettling)

Receiving ==
    \/ \E data \in Events : OnDispatch(data)
    \/ \E u \in Users \cup {""} : CharacterSelected(u)

NextClient == Receiving

SpecClient == Init /\ [][NextClient]_vars

NextSave == Login \/ Removal \/ Sweep \/ Saving

SpecSave == Init /\ [][NextSave]_vars

SpecSession == Init /\ [][NextSession]_vars

SpecMove == Init /\ [][NextMove]_vars

SpecKill == Init /\ [][NextKill]_vars

(***************************************************************************)
(* Properties of the session lifecycle (SpecSession).                      *)
(***************************************************************************)
\* positions of the registry list that hold a character of user_id
EntriesOf(cs, ch, user_id) == {i \in 1..Len(cs) : ch[cs[i]].user_id = user_id}

\* C1: in every reachable state the list `characters` holds at most one entry
\* per user_id
C1_OneEntryPerUser ==
    \A u \in Users : Cardinality(EntriesOf(characters, chr, u)) <= 1

\* a step in which a manage() call ran to its end: straight through, or
\* resumed after the old session's save
ManageCompletes == lastOp'.op \in {"manage", "manageReplace"}

\* C2: when manage(new) completes for a user_id that had a character `old`
\* registered, `old` has left the registry, `new` is the only entry of that
\* user_id, and new.targetedBy contains all of old.targetedBy
C2_SessionReplace ==
    [][\A old \in Insts :
          (/\ ManageCompletes
           /\ old \in SeqToSet(characters)
           /\ chr[old].user_id = lastOp'.user)
          => /\ old \notin SeqToSet(characters')
             /\ Cardinality(EntriesOf(characters', chr', lastOp'.user)) = 1
             /\ chr[old].targetedBy \subseteq chr'[characters'[Len(characters')]].targetedBy]_vars

\* the cells of the grid index that list character c
CellsOf(c) ==
    {k \in GridKeys : \E j \in 1..Len(locations.cells[k]) : locations.cells[k][j] = c}

\* C3: every registered character is listed in exactly one cell of the grid
\* index, the cell keyed {map}_{y}_{x} of its location
C3_GridIndexInSync ==
    \A i \in 1..Len(characters) :
        /\ locations.defined
        /\ CellsOf(characters[i]) = {gridKey(chr[characters[i]].location)}

(***************************************************************************)
(* Properties of move() (SpecMove).                                        *)
(***************************************************************************)
\* the socket's room membership changes only through join and leave
ChangesRooms(M) == \E i \in 1..Len(M.out) : M.out[i].k \in {"join", "leave"}

\* C4: a move() by a character whose targetedBy is non-empty changes no
\* location, no room membership and no cooldown entry; its only effect is one
\* 'warning' event to the requesting socket
C4_LockedMoveOnlyWarns ==
    \A u \in Users, grid \in Axes, direction \in Directions, failAt \in FailPoints :
        LET character == get(Cur, u)
            M == move(Cur, u, grid, direction, failAt)
        IN  (character # NoChar /\ chr[character].targetedBy # {}) =>
                /\ M.chr = chr
                /\ M.cooldowns = cooldowns
                /\ M.characters = characters
                /\ Len(M.out) = 1
                /\ M.out[1].k = "socket" /\ M.out[1].to = u /\ M.out[1].type = "warning"

\* u1 has just asked to move while somebody was aiming at its character
C4_Witness ==
    /\ lastOp = Op("move", "u1")
    /\ get(Cur, "u1") # NoChar
    /\ chr[get(Cur, "u1")].targetedBy # {}

\* C5: a move() that arrives while the cooldown armed by an earlier move of
\* the same character is still running does not change the character's
\* location, so two calls inside one window change it at most once
C5_OneMovePerWindow ==
    [][\A u \in Users :
          LET character == get(Cur, u)
          IN  (/\ lastOp' = Op("move", u)
               /\ character # NoChar
               /\ cooldowns[character].ticks > 0)
              => chr'[character].location = chr[character].location]_vars

\* u1 has just asked to move part-way through the window of its last move
C5_Witness ==
    /\ lastOp = Op("move", "u1")
    /\ get(Cur, "u1") # NoChar
    /\ cooldowns[get(Cur, "u1")].ticks > 0
    /\ cooldowns[get(Cur, "u1")].ticks < MoveCooldown

\* where a move of character c along grid by direction would lead
Destination(c, grid, direction) ==
    LET l == [chr[c].location EXCEPT ![grid] = @ + direction]
    IN  isValidLocation(l.map, l.x, l.y)

\* the preconditions of move() for character c, other than the destination
MayMove(c) == c # NoChar /\ chr[c].targetedBy = {} /\ ~chr[c].hidden /\ cooldowns[c].ticks = 0

\* C6: a rejected move() (requester not online, targetedBy non-empty, hidden,
\* cooldown active, or destination invalid) leaves locations, target locks,
\* room membership and the cooldown ledger as they were
C6_RejectedMoveChangesNothing ==
    \A u \in Users, grid \in Axes, direction \in Directions :
        LET character == get(Cur, u)
            M == move(Cur, u, grid, direction, 0)
        IN  (~MayMove(character) \/ Destination(character, grid, direction) = NoLocation) =>
                /\ M.chr = chr
                /\ M.cooldowns = cooldowns
                /\ ~ChangesRooms(M)

\* C7: a successful move() changes exactly the requested axis by the requested
\* direction; y+1 is announced as leaving to the South and strolling in from
\* the North, y-1 as North / South, x+1 as East / West, x-1 as West / East;
\* both broadcasts exclude the mover, and the mover's client gets its
\* character update
C7_MoveAxisAndDirections ==
    \A u \in Users, grid \in Axes, direction \in Directions :
        LET character == get(Cur, u)
        IN  (MayMove(character) /\ Destination(character, grid, direction) # NoLocation) =>
            LET old == chr[character].location
                M == move(Cur, u, grid, direction, 0)
                new == M.chr[character].location
                leavesTo == IF grid = "y" THEN (IF direction = 1 THEN "South" ELSE "North")
                            ELSE (IF direction = 1 THEN "East" ELSE "West")
                strollsFrom == IF grid = "y" THEN (IF direction = 1 THEN "North" ELSE "South")
                               ELSE (IF direction = 1 THEN "West" ELSE "East")
            IN  /\ new.map = old.map
                /\ new.x = (IF grid = "x" THEN old.x + direction ELSE old.x)
                /\ new.y = (IF grid = "y" THEN old.y + direction ELSE old.y)
                /\ \E i \in 1..Len(M.out) :
                      M.out[i] = Ev("room", getLocationId(old), "info",
                                    <<u, "leaves to the", leavesTo>>, {u}, NoChar, 0)
                /\ \E i \in 1..Len(M.out) :
                      M.out[i] = Ev("room", getLocationId(new), "info",
                                    <<u, "strolls in from the", strollsFrom>>, {u}, NoChar, 0)
                /\ \E i \in 1..Len(M.out) :
                      /\ M.out[i].k = "user" /\ M.out[i].to = u
                      /\ M.out[i].type = "UPDATE_CHARACTER"

\* u1 has moved South along the docks and its cooldown has just been armed
C7_Witness ==
    /\ lastOp = Op("move", "u1")
    /\ get(Cur, "u1") # NoChar
    /\ chr[get(Cur, "u1")].location = [map |-> "docks", x |-> 0, y |-> 1]
    /\ cooldowns[get(Cur, "u1")].ticks = MoveCooldown

\* positions in the effects of M of the calls of kind k
Calls(M, k) == {i \in 1..Len(M.out) : M.out[i].k = k}

\* C8: the cooldown clock is started only as the last step of a move, after the
\* location update, both room broadcasts, the room join and both client
\* refreshes, and never for a move one of whose side effects failed
C8_CooldownStartsLast ==
    \A u \in Users, grid \in Axes, direction \in Directions, failAt \in FailPoints :
        LET M == move(Cur, u, grid, direction, failAt)
        IN  Calls(M, "start") # {} =>
                /\ failAt = 0
                /\ Calls(M, "onError") = {}
                /\ Calls(M, "start") = {Len(M.out)}
                /\ Calls(M, "updateLocation") # {}
                /\ Calls(M, "join") # {}
                /\ Calls(M, "mapUpdate") # {}
                /\ \E i \in Calls(M, "room") :
                      Len(M.out[i].msg) = 3 /\ M.out[i].msg[2] = "leaves to the"
                /\ \E i \in Calls(M, "room") :
                      Len(M.out[i].msg) = 3 /\ M.out[i].msg[2] = "strolls in from the"
                /\ \E i \in Calls(M, "user") : M.out[i].type = "UPDATE_CHARACTER"

\* u1 has completed a move along the city row: the clock runs, nothing is
\* left reserved
C8_Witness ==
    /\ lastOp = Op("move", "u1")
    /\ get(Cur, "u1") # NoChar
    /\ chr[get(Cur, "u1")].location.map = "city"
    /\ cooldowns[get(Cur, "u1")] = [ticks |-> MoveCooldown, pending |-> 0]

(***************************************************************************)
(* Properties of kill() (SpecKill).                                        *)
(***************************************************************************)
\* C9: with dropped cash C, dropped experience E and N >= 1 contributors,
\* every contributor gets exactly floor(C/N) cash, every contributor with a
\* user_id also gets exactly floor(E/N) experience, a contributor without one
\* gets no experience, and N * floor(C/N) <= C
C9_RewardSplit ==
    \A u \in Users, killer \in Entities, items \in 0..MaxItems, cash \in 0..MaxCash,
       exp \in 0..MaxExp :
        LET character == get(Cur, u)
        IN  (character # NoChar /\ chr[character].targetedBy # {}) =>
            LET contributors == chr[character].targetedBy
                N == Cardinality(contributors)
                M == kill(Cur, u, killer, items, cash, exp).M
                cashTo(e) == {i \in Calls(M, "updateCash") : M.out[i].e = e}
                expTo(e) == {i \in Calls(M, "updateExp") : M.out[i].e = e}
            IN  /\ \A e \in Entities :
                      Cardinality(cashTo(e)) = (IF e \in contributors THEN 1 ELSE 0)
                /\ \A e \in Entities :
                      Cardinality(expTo(e)) =
                          (IF e \in contributors /\ userIdOf(Cur, e) # "" THEN 1 ELSE 0)
                /\ \A i \in Calls(M, "updateCash") :
                      /\ N * M.out[i].n <= cash
                      /\ cash < N * (M.out[i].n + 1)
                /\ \A i \in Calls(M, "updateExp") :
                      /\ N * M.out[i].n <= exp
                      /\ exp < N * (M.out[i].n + 1)

\* a character that a player and the non-player entity were both aiming at
\* has just been killed
C9_Witness ==
    /\ lastOp.op = "kill"
    /\ get(Cur, lastOp.user) # NoChar
    /\ NpcId \in chr[get(Cur, lastOp.user)].targetedBy
    /\ chr[get(Cur, lastOp.user)].targetedBy \cap Insts # {}

\* C10: kill(user_id, killer) neither adds nor removes a registry entry, the
\* victim stays registered under its user_id, and its location becomes the
\* respawn point of the map it died on
C10_DeathKeepsSessionOnline ==
    \A u \in Users, killer \in Entities, items \in 0..MaxItems, cash \in 0..MaxCash,
       exp \in 0..MaxExp :
        LET character == get(Cur, u)
        IN  character # NoChar =>
            LET r == kill(Cur, u, killer, items, cash, exp)
                diedOn == chr[character].location.map
            IN  /\ ~r.threw
                /\ r.M.characters = characters
                /\ get(r.M, u) = character
                /\ r.M.chr[character].location =
                      [map |-> diedOn, x |-> mapGet(diedOn).respawn.x,
                       y |-> mapGet(diedOn).respawn.y]

\* u2's character has just been killed on the docks and stands at their
\* respawn point, still registered
C10_Witness ==
    /\ lastOp.op = "kill" /\ lastOp.user = "u2"
    /\ get(Cur, "u2") # NoChar
    /\ chr[get(Cur, "u2")].location = [map |-> "docks", x |-> 0, y |-> 1]

\* what C11 asks of one kill() call: r is what the call left, diedAt the room id
\* of the victim's cell before it, items the number of loot items
LootAtDeathCell(r, out, diedAt, items) ==
    LET drops == {i \in 1..Len(out) : out[i].k = "drop"}
        ground == {i \in 1..Len(out) : out[i].type = "UPDATE_GROUND_ITEMS"}
    IN  /\ r.ret = diedAt
        /\ Cardinality(drops) = items
        /\ \A i \in drops : out[i].to = diedAt
        /\ Cardinality(ground) = 1
        /\ \A i \in ground : out[i].k = "room" /\ out[i].to = diedAt

KillerToldFullCash(r, out, u, killerUser, cash) ==
    LET found == {i \in 1..Len(out) :
                     /\ out[i].k = "user" /\ out[i].type = "info"
                     /\ out[i].msg = <<"You find money on body", u>>}
        after(i, k, type) == \E j \in (i + 1)..Len(out) : out[j].k = k /\ out[j].type = type
        last == IF found = {} THEN Min({i \in 1..Len(out) : out[i].k = "updateLocation"})
                ELSE Min(found)
    IN  /\ ~r.threw
        /\ killerUser # "" => /\ Cardinality(found) = 1
                              /\ \A i \in found : out[i].to = killerUser /\ out[i].n = cash
        /\ killerUser = "" => found = {}
        /\ after(last, "room", "UPDATE_GROUND_ITEMS")
        /\ after(last, "room", "JOINED_GRID")
        /\ after(last, "join", "")
        /\ after(last, "user", "UPDATE_CHARACTER")
        /\ after(last, "mapUpdate", "")

RemovedFor(M, M2, c, user_id) ==
    LET out == M2.out
        room == getLocationId(M.chr[c].location)
    IN  /\ c \notin SeqToSet(M2.characters)
        /\ \A f \in FactionIds : c \notin M2.factions[f]
        /\ \E i \in 1..Len(out) : /\ out[i].k = "room" /\ out[i].to = room /\ out[i].type = "info"
                                  /\ out[i].ignore = {user_id}
        /\ \E i \in 1..Len(out) : /\ out[i].k = "room" /\ out[i].to = room
                                  /\ out[i].type = "LEFT_GRID" /\ out[i].msg = <<user_id>>
        /\ \E i \in 1..Len(out) : /\ out[i].k = "server"
                                  /\ out[i].type = "REMOVE_ONLINE_PLAYER" /\ out[i].msg = <<user_id>>

C14_RemoveOfAbsentIsNoOp ==
    \A u \in Users :
        get(Cur, u) = NoChar =>
            /\ removeBegin(Cur, u).saving = NoChar
            /\ removeBegin(Cur, u).M.out = <<>>
            /\ removeBegin(Cur, u).M.characters = characters
            /\ removeBegin(Cur, u).M.factions = factions

\* remove() has just returned for u2, who has no character, while another
\* character is registered and on a roster
C14_Witness ==
    /\ lastOp = Op("removeNone", "u2")
    /\ get(Cur, "u2") = NoChar
    /\ characters # <<>> /\ factions["f1"] # {}

\* what C15 asks of the sweep sw2 in which the save of entry i of sweep sw has
\* settled: the entry is saved or its failure was caught, no other entry changed
SettlesAlone(sw, sw2, i, ok) ==
    /\ sw2.on
    /\ sw2.saves[i].st = (IF ok THEN "saved" ELSE "failed")
    /\ \A k \in 1..Len(sw.saves) : k # i => sw2.saves[k] = sw.saves[k]
    /\ saveAllResult(sw2) = "resolved"

C16_BootOrder ==
    /\ \E n \in 0..Len(Subsystems) : boot.called = SubSeq(Subsystems, 1, n)
    /\ Len(boot.called) <= Len(boot.done) + 1
    /\ boot.done = SubSeq(boot.called, 1, Len(boot.done))
    /\ (boot.timers \/ boot.listening) => boot.done = Subsystems
    /\ (boot.pc # "await" /\ ~boot.failed) =>
          boot.done = Subsystems /\ boot.timers /\ boot.listening

\* the order alone, which init() does keep as far as it gets
C16_OrderKept ==
    /\ \E n \in 0..Len(Subsystems) : boot.called = SubSeq(Subsystems, 1, n)
    /\ Len(boot.called) <= Len(boot.done) + 1
    /\ boot.done = SubSeq(boot.called, 1, Len(boot.done))
    /\ (boot.timers \/ boot.listening) => boot.done = Subsystems

\* init() has ended although no manager's init() failed
C16_Witness == boot.pc = "rejected" /\ ~boot.failed /\ Len(boot.done) = 7

\* C17: each of the four verbs, called with an exclusion list of user_ids,
\* dispatches exactly one event, which carries that list
C17_VerbsForwardExclusion ==
    \A verb \in Verbs, to \in Users, ignore \in SUBSET Users :
        LET out == eventTo(Cur, verb, to, "info", <<"message">>, ignore).out
        IN  Len(out) = 1 /\ out[1].k = verb /\ out[1].ignore = ignore

\* the two verbs that do take the list forward it
C17_RoomAndServerForward ==
    \A verb \in {"room", "server"}, to \in Users, ignore \in SUBSET Users :
        eventTo(Cur, verb, to, "info", <<"message">>, ignore).out[1].ignore = ignore

\* the entries of the registry at cell p, and those of them a client may see
\* when `ignore` is excluded
EntriesAt(p) == {i \in 1..Len(characters) : chr[characters[i]].location = p}
VisibleAt(p, ignore) ==
    {i \in EntriesAt(p) : ~chr[characters[i]].hidden /\ chr[characters[i]].user_id # ignore}

\* C18: in client-facing mode getLocationList returns, for a cell, one
\* {name, user_id} object per registered character there that is neither
\* hidden nor the excluded user, and nothing else; in internal mode it returns
\* the character objects of all registered characters there, hidden or not,
\* whatever the exclusion argument
C18_LocationListModes ==
    \A p \in ValidLocations, ignore \in Users \cup {""} :
        LET client == getLocationList(Cur, p.map, p.x, p.y, ignore, TRUE).list
            inner  == getLocationList(Cur, p.map, p.x, p.y, ignore, FALSE).refs
        IN  /\ Len(client) = Cardinality(VisibleAt(p, ignore))
            /\ \A j \in 1..Len(client) :
                  /\ DOMAIN client[j] = {"name", "user_id"}
                  /\ \E i \in VisibleAt(p, ignore) : client[j] = details(Cur, characters[i])
            /\ \A i \in VisibleAt(p, ignore) :
                  \E j \in 1..Len(client) : client[j] = details(Cur, characters[i])
            /\ Len(inner) = Cardinality(EntriesAt(p))
            /\ SeqToSet(inner) = {characters[i] : i \in EntriesAt(p)}

\* u1, hidden, and u2 stand on the same cell: the internal list has both, the
\* list for a third party has u2 only, the list for u2 is empty
C18_Witness ==
    /\ get(Cur, "u1") # NoChar /\ get(Cur, "u2") # NoChar
    /\ chr[get(Cur, "u1")].hidden /\ ~chr[get(Cur, "u2")].hidden
    /\ chr[get(Cur, "u1")].location = chr[get(Cur, "u2")].location
    /\ LET p == chr[get(Cur, "u1")].location
       IN  /\ Len(getLocationList(Cur, p.map, p.x, p.y, "u1", FALSE).refs) = 2
           /\ Len(getLocationList(Cur, p.map, p.x, p.y, "", TRUE).list) = 1
           /\ getLocationList(Cur, p.map, p.x, p.y, "u2", TRUE).list = <<>>

\* how often character c is listed in cell key of the grid index of M
TimesListed(M, key, c) ==
    Cardinality({i \in 1..Len(M.locations.cells[key]) : M.locations.cells[key][i] = c})

\* what C19 asks of the grid methods when they are applied to machine M for
\* character c and position p
GridIdempotentOn(M, p, c) ==
    LET once  == addToGrid(M, p, c)
        twice == addToGrid(once.M, p, c)
        gone  == removeFromGrid(M, p, c)
    IN  /\ ~once.threw /\ ~twice.threw /\ ~gone.threw
        /\ twice.M.locations = once.M.locations
        /\ TimesListed(once.M, gridKey(p), c) = 1
        /\ TimesListed(twice.M, gridKey(p), c) = 1
        /\ TimesListed(M, gridKey(p), c) = 0 => gone.M.locations = M.locations
        /\ \A k \in GridKeys \ {gridKey(p)} :
              /\ once.M.locations.cells[k] = M.locations.cells[k]
              /\ gone.M.locations.cells[k] = M.locations.cells[k]

\* C19: from the initial state on, addToGrid twice is addToGrid once,
\* removeFromGrid of an absent character or of a cell never created changes
\* nothing, and neither touches a cell other than the one keyed by the position
C19_GridIdempotent ==
    \A c \in Online, p \in ValidLocations : GridIdempotentOn(Cur, p, c)

\* the same for a registry whose constructor had assigned this.locations = {}
C19_IdempotentOnceDefined ==
    \A c \in Online, p \in ValidLocations :
        GridIdempotentOn([Cur EXCEPT !.locations.defined = TRUE], p, c)

\* a grid method has just been called for a registered character
C19_Witness == lastOp.op \in {"addToGrid", "removeFromGrid"} /\ characters # <<>>

\* machine M, the outcome of a move(), holds no more reserved-and-never-started
\* cooldown entries than the state the call began in
NoNewReservation(M) == \A c \in Insts : M.cooldowns[c].pending <= cooldowns[c].pending

\* C20: every path through move() that reserves a cooldown entry ends with the
\* entry started or released, also when the destination is invalid
\* and when a call of the try block throws
C20_NoArmedUnstartedCooldown ==
    \A u \in Users, grid \in Axes, direction \in Directions, failAt \in FailPoints :
        NoNewReservation(move(Cur, u, grid, direction, failAt))

\* the paths that reach newCooldown.start() do leave no reservation behind
C20_StartedWhenMoved ==
    \A u \in Users, grid \in Axes, direction \in Directions :
        LET character == get(Cur, u)
        IN  (MayMove(character) /\ Destination(character, grid, direction) # NoLocation)
                => NoNewReservation(move(Cur, u, grid, direction, 0))

\* a move() has just ended with an entry reserved and no clock running
C20_Witness ==
    /\ lastOp = Op("move", "u1") /\ get(Cur, "u1") # NoChar
    /\ cooldowns[get(Cur, "u1")].pending > 0 /\ cooldowns[get(Cur, "u1")].ticks = 0

\* machine M, the outcome of a move() requested by user_id, hands the requester
\* a warning or error event and holds the characters and the ledger as they were
WarnsAndKeeps(M, user_id) ==
    /\ \E i \in 1..Len(M.out) :
          /\ M.out[i].k \in {"socket", "user"} /\ M.out[i].to = user_id
          /\ M.out[i].type \in {"warning", "error"}
    /\ M.chr = chr /\ M.cooldowns = cooldowns /\ M.characters = characters

\* C21: every rejected move() (requester not registered, targeted, hidden,
\* cooldown running, destination invalid) sends the requester a warning or
\* error event and changes no state
C21_RejectionWarnsRequester ==
    \A u \in Users, grid \in Axes, direction \in Directions :
        (~MayMove(get(Cur, u)) \/ Destination(get(Cur, u), grid, direction) = NoLocation)
            => WarnsAndKeeps(move(Cur, u, grid, direction, 0), u)

\* the three rejections that do warn: not registered, targeted, hidden
C21_FirstThreeWarn ==
    \A u \in Users, grid \in Axes, direction \in Directions :
        (get(Cur, u) = NoChar \/ chr[get(Cur, u)].targetedBy # {} \/ chr[get(Cur, u)].hidden)
            => WarnsAndKeeps(move(Cur, u, grid, direction, 0), u)

\* a move() has just returned for u1 while its cooldown runs
C21_Witness ==
    /\ lastOp = Op("move", "u1") /\ get(Cur, "u1") # NoChar
    /\ cooldowns[get(Cur, "u1")].ticks \in 1..(MoveCooldown - 1)

\* machine M, the outcome of a move(), has handed nothing to the dispatcher,
\* to a socket or to any collaborator, and holds every character as it was
SilentAndStill(M) == M.out = <<>> /\ M.chr = chr /\ M.characters = characters

\* C22: a move() that passes its checks and whose destination the world
\* reports as invalid emits no event to anybody and leaves the character's
\* location as it was
C22_InvalidDestinationSilent ==
    \A u \in Users, grid \in Axes, direction \in Directions :
        (MayMove(get(Cur, u)) /\ Destination(get(Cur, u), grid, direction) = NoLocation)
            => SilentAndStill(move(Cur, u, grid, direction, 0))

\* a move() has just returned for u1, which stands in the corner of the map
\* with a cooldown entry reserved and no clock running
C22_Witness ==
    /\ lastOp = Op("move", "u1") /\ get(Cur, "u1") # NoChar
    /\ chr[get(Cur, "u1")].location.x = 0 /\ chr[get(Cur, "u1")].location.y = 0
    /\ cooldowns[get(Cur, "u1")].pending = 1 /\ cooldowns[get(Cur, "u1")].ticks = 0
    /\ chr[get(Cur, "u1")].targetedBy = {} /\ ~chr[get(Cur, "u1")].hidden

\* machine M, the outcome of a move() requested by user_id, has done nothing
\* but send the requester's socket one event of the given type and text
OnlyEvent(M, user_id, type, text) ==
    /\ Len(M.out) = 1
    /\ M.out[1].k = "socket" /\ M.out[1].to = user_id
    /\ M.out[1].type = type /\ M.out[1].msg = <<text>>
    /\ M.chr = chr /\ M.cooldowns = cooldowns

\* the event by which move() rejects a request by user_id in the current
\* state on account of checks (1) to (3), taken in this order
FirstFailure(user_id) ==
    IF get(Cur, user_id) = NoChar
    THEN <<"error", "You do not appear to be logged in any more.">>
    ELSE IF chr[get(Cur, user_id)].targetedBy # {}
    THEN <<"warning", "You can't move as the following players are aiming at you">>
    ELSE IF chr[get(Cur, user_id)].hidden
    THEN <<"warning", "You can't move as long as you are hidden.">>
    ELSE <<>>

\* C23: move() checks (1) registered, (2) not targeted, (3) not hidden,
\* (4) cooldown elapsed in this order and stops at the first failure: the
\* requester gets the event of that failure only, and when one of (1) to (3)
\* fails the outcome does not depend on the cooldown ledger, on the requested
\* destination or on a failure of a later call
C23_ChecksInOrder ==
    \A u \in Users :
        FirstFailure(u) # <<>> =>
            /\ \A grid \in Axes, direction \in Directions, failAt \in FailPoints :
                  OnlyEvent(move(Cur, u, grid, direction, failAt), u,
                            FirstFailure(u)[1], FirstFailure(u)[2])
            /\ get(Cur, u) # NoChar =>
                  \A grid \in Axes, direction \in Directions, ticks \in 0..MoveCooldown :
                      move([Cur EXCEPT !.cooldowns[get(Cur, u)].ticks = ticks],
                           u, grid, direction, 0).out
                        = move(Cur, u, grid, direction, 0).out

\* a move() has just returned for u1, who is aimed at, hidden and inside a
\* cooldown window at once
C23_Witness ==
    /\ lastOp = Op("move", "u1") /\ get(Cur, "u1") # NoChar
    /\ chr[get(Cur, "u1")].targetedBy # {} /\ chr[get(Cur, "u1")].hidden
    /\ cooldowns[get(Cur, "u1")].ticks > 0

\* the effects `out` of a move from room `old` to room `new` are, in this
\* order: the socket leaves old; old is told "leaves" and LEFT_GRID; the
\* location is updated; new is told "strolls in" and JOINED_GRID; the socket
\* joins new; the mover's character and map refresh; the cooldown start
MoveSequence(out, old, new) ==
    /\ Len(out) = 10
    /\ out[1].k = "leave" /\ out[1].to = old
    /\ out[2].k = "room" /\ out[2].to = old /\ out[2].msg[2] = "leaves to the"
    /\ out[3].k = "room" /\ out[3].to = old /\ out[3].type = "LEFT_GRID"
    /\ out[4].k = "updateLocation" /\ out[4].to = new
    /\ out[5].k = "room" /\ out[5].to = new /\ out[5].msg[2] = "strolls in from the"
    /\ out[6].k = "room" /\ out[6].to = new /\ out[6].type = "JOINED_GRID"
    /\ out[7].k = "join" /\ out[7].to = new
    /\ out[8].k = "user" /\ out[8].type = "UPDATE_CHARACTER"
    /\ out[9].k = "mapUpdate"
    /\ out[10].k = "start"

\* machine M, in which move() of character c failed at the socket's leave of
\* the old room, has released c's own aim (c aims at nobody, and the character
\* it aimed at no longer lists it) and has done nothing else
ReleasedBeforeLeaving(M, c) ==
    /\ M.chr[c].target = NoChar
    /\ chr[c].target # NoChar => c \notin M.chr[chr[c].target].targetedBy
    /\ M.chr[c].location = chr[c].location
    /\ Calls(M, "leave") = {} /\ Calls(M, "room") = {}

\* C24: a successful move() releases the mover's aim and leaves the old room
\* first, tells the old room while the location is still the old one, then
\* updates the location, tells the new room before the socket joins it, and
\* refreshes the mover last before the cooldown start; the socket has left
\* the old room before it joins the new one
C24_MoveEventOrder ==
    \A u \in Users, grid \in Axes, direction \in Directions :
        (MayMove(get(Cur, u)) /\ Destination(get(Cur, u), grid, direction) # NoLocation) =>
            /\ MoveSequence(move(Cur, u, grid, direction, 0).out,
                            getLocationId(chr[get(Cur, u)].location),
                            getLocationId(Destination(get(Cur, u), grid, direction)))
            /\ ReleasedBeforeLeaving(move(Cur, u, grid, direction, 3), get(Cur, u))

\* u1 has completed a move into the cell where u2 stands
C24_Witness ==
    /\ lastOp = Op("move", "u1")
    /\ get(Cur, "u1") # NoChar /\ get(Cur, "u2") # NoChar
    /\ chr[get(Cur, "u1")].location = chr[get(Cur, "u2")].location
    /\ cooldowns[get(Cur, "u1")] = [ticks |-> MoveCooldown, pending |-> 0]

\* C25: kill(), updateClient() and dispatchUpdatePlayerList() for a user_id
\* without a registered character do not fail and change nothing
C25_AbsentLookupsAreSafe ==
    \A u \in Users :
        get(Cur, u) = NoChar =>
            /\ updateClient(Cur, u) = Cur
            /\ dispatchUpdatePlayerList(Cur, u) = Cur
            /\ \A killer \in Online \cup {NpcId} :
                  /\ ~kill(Cur, u, killer, 0, 0, 0).threw
                  /\ kill(Cur, u, killer, 0, 0, 0).M = Cur

\* the two lookups that do test what get() returned
C25_ClientLookupsAreSafe ==
    \A u \in Users :
        get(Cur, u) = NoChar =>
            updateClient(Cur, u) = Cur /\ dispatchUpdatePlayerList(Cur, u) = Cur

\* kill() has just thrown for u2, who has no registered character, while
\* another character is registered
C25_Witness ==
    /\ lastOp = OpRet("kill", "u2", "threw")
    /\ get(Cur, "u2") = NoChar /\ characters # <<>>

\* C26: save() for an empty user_id or for a user_id without a registered
\* character throws to its caller, writes nothing to storage and changes
\* nothing: the registry, and the saves and removals in flight, stay as they are
C26_SaveOfAbsentThrows ==
    \A u \in Users \cup {""} :
        (u = "" \/ get(Cur, u) = NoChar) =>
            /\ save(Cur, u).threw
            /\ save(Cur, u).M = Cur

\* save() has just thrown for u2, who has no registered character, while a
\* sweep over the registered characters waits for storage
C26_Witness ==
    /\ lastOp = OpRet("save", "u2", "threw")
    /\ get(Cur, "u2") = NoChar
    /\ sweep.on /\ \E i \in 1..Len(sweep.saves) : sweep.saves[i].st = "pending"

\* C27: load() returns the absent result both when storage has no record of
\* the user_id and when the lookup fails, and in both cases registers
\* nothing and emits nothing
C27_LoadReportsAbsent ==
    \A t \in 1..MaxTasks, ok \in BOOLEAN :
        (tasks[t].kind = "load" /\ tasks[t].pc = "dbLoad") =>
            /\ ~loadNone(Cur, ok).threw
            /\ loadNone(Cur, ok).ret = "null"
            /\ loadNone(Cur, ok).M = Cur

\* in neither case is anything registered or emitted
C27_LoadRegistersNothing ==
    \A t \in 1..MaxTasks, ok \in BOOLEAN :
        (tasks[t].kind = "load" /\ tasks[t].pc = "dbLoad") => loadNone(Cur, ok).M = Cur

\* load() has just thrown for u1, whose storage lookup failed
C27_Witness == lastOp = OpRet("loadNone", "u1", "threw") /\ get(Cur, "u1") = NoChar

\* machine M, in which a resupply has settled, has told the server the news
\* exactly when the resupply succeeded (ok), and has left the timers, the
\* other resupplies, the sweep and the registry as they were
SettledQuietly(M, ok) ==
    /\ ok => Len(M.out) = 1 /\ M.out[1].k = "server" /\ M.out[1].type = "ADD_NEWS"
    /\ ~ok => M.out = <<>>
    /\ M.game = [game EXCEPT !.resupply = @ - 1]
    /\ M.sweep = sweep /\ M.characters = characters /\ M.chr = chr

\* C28: a firing of 'newday' starts a shop resupply and broadcasts nothing
\* yet; the news goes to the server when the resupply has succeeded; a failed
\* resupply is swallowed without a broadcast and leaves the timers as they
\* are; setupGameTimers() schedules exactly the timers configured as enabled
C28_NewDayTimer ==
    /\ \A enabled \in [TimerNames -> BOOLEAN] :
          setupGameTimers(Cur, enabled).game.timers = {n \in TimerNames : enabled[n]}
    /\ onTimer(Cur, "newday").game = [game EXCEPT !.resupply = @ + 1]
    /\ Calls(onTimer(Cur, "newday"), "resupplyAll") = {1}
    /\ Calls(onTimer(Cur, "newday"), "server") = {}
    /\ game.resupply > 0 =>
          \A ok \in BOOLEAN : SettledQuietly(resupplySettle(Cur, ok), ok)

\* with 'newday' enabled and 'autosave' not, a resupply has just failed while
\* another one is in flight
C28_Witness ==
    /\ lastOp = Op("resupplyFailed", "")
    /\ game.timers = {"newday"} /\ game.resupply > 0

\* no manage() or remove() is suspended at a save
NoneSuspended == \A t \in 1..MaxTasks : tasks[t].pc \notin {"manageSave", "save"}

\* C29: whenever no manage() or remove() is in flight, a character with a
\* faction is on that faction's roster if and only if it is registered
C29_RosterMatchesRegistry ==
    NoneSuspended =>
        \A c \in Insts :
            (chr[c] # Free /\ FactionOf(chr[c].user_id) # "") =>
                (c \in factions[FactionOf(chr[c].user_id)] <=> c \in Online)

\* a remove() has just completed for u1, whose faction roster is empty again
C29_Witness ==
    /\ lastOp.op \in {"removed", "removedUnsaved"} /\ lastOp.user = "u1"
    /\ NoneSuspended /\ factions[FactionOf("u1")] = {}

\* a manage() has just completed for the user whose remove(), started by a
\* disconnect before, is still suspended at its save: the character that
\* manage() pushed, the last of the registry, is the newer session
ReconnectedMeanwhile ==
    /\ tasks[DisconnectSlot].kind = "remove" /\ tasks[DisconnectSlot].pc = "save"
    /\ lastOp.op \in {"manage", "manageReplace"}
    /\ lastOp.user = tasks[DisconnectSlot].user
    /\ characters # <<>>
    /\ characters[Len(characters)] # tasks[DisconnectSlot].old

\* C30: a remove() that was suspended at its save while a reconnect
\* registered a new character for the same user_id does not delete that new
\* character when it resumes, so the user stays registered
C30_RemovalKeepsNewerSession ==
    ReconnectedMeanwhile =>
        \A ok \in BOOLEAN :
            characters[Len(characters)] \in
                SeqToSet(removeResume(Cur, tasks[DisconnectSlot].old,
                                      tasks[DisconnectSlot].user, ok).characters)

\* the remove() of u1's old session has just completed; the load() of u1's
\* new session, whose manage() completed in the meantime, still waits for its
\* inventory, and u1 is not registered
C30_Witness ==
    /\ lastOp.op \in {"removed", "removedUnsaved"} /\ lastOp.user = "u1"
    /\ \E t \in 1..MaxTasks :
          tasks[t].kind = "load" /\ tasks[t].pc = "inventory" /\ tasks[t].user = "u1"
    /\ get(Cur, "u1") = NoChar

\* load() of character c is suspended at loadCharacterInventory (line 534):
\* manage() has registered c and setInventory has not run yet
InventoryPending(c) ==
    \E t \in 1..MaxTasks :
        tasks[t].kind = "load" /\ tasks[t].pc = "inventory" /\ tasks[t].inst = c

\* C31: a registered character whose load() still waits for its inventory is
\* not saved: a saveAll() called now starts no save() of it, and a remove()
\* of its user called now does not wait for a save() of it
C31_NoTornSave ==
    \A i \in 1..Len(characters) :
        InventoryPending(characters[i]) =>
            /\ saveAll(Cur).sweep.saves[i].st # "pending"
            /\ removeBegin(Cur, chr[characters[i]].user_id).saving # characters[i]

\* a sweep has just written u1's character to storage while u1's load()
\* still waits for the inventory
C31_Witness ==
    /\ lastOp = Op("saveSettle", "u1") /\ sweep.on
    /\ \E i \in 1..Len(sweep.saves) :
          /\ sweep.saves[i].st = "saved"
          /\ InventoryPending(sweep.saves[i].c)
          /\ chr[sweep.saves[i].c].user_id = "u1"

\* C32: when no manager's init() fails, init() eventually has initialised
\* every manager, the skill manager included, has set up the game timers and
\* has started the socket manager listening
C32_BootCompletes ==
    <>(boot.failed \/ (boot.done = Subsystems /\ boot.timers /\ boot.listening))

\* init() has ended at the character manager: six managers resolved, none
\* failed, the skill manager was never called and nothing listens
C32_Witness ==
    /\ boot.pc = "rejected" /\ ~boot.failed
    /\ boot.called = SubSeq(Subsystems, 1, 7)
    /\ ~boot.timers /\ ~boot.listening

\* C33: a shutdown(callback) that was called leads to one call of the
\* callback, made when no save of the sweep is outstanding
C33_ShutdownCallsBack ==
    (game.down # "none") ~> (game.callbacks = 1 /\ ~sweep.on)

\* shutdown() has just rejected with a character registered: nothing was
\* saved and the callback was not called
C33_Witness ==
    /\ lastOp = OpRet("shutdown", "", "rejected")
    /\ characters # <<>> /\ ~sweep.on /\ game.callbacks = 0

\* the event's payload carries an ignore list that names user_id u
Excludes(data, u) == data.hasPayload /\ data.hasIgnore /\ u \in SeqToSet(data.ignore)

\* the client after onDispatch(data), r, handed data to the store once
ForwardedOnce(r, data) == r.cl.store = Append(app.store, data)

====
